---- MODULE Spec2Model ----
(***************************************************************************)
(* A model of package errgroup (src/errgroup.go): one Group, the           *)
(* goroutines started through Group.Go, the goroutine that owns the group  *)
(* ("main": calls Go, Wait and Stop) and one more goroutine that calls     *)
(* Stop ("aux").                                                           *)
(*                                                                         *)
(* A step of a goroutine ends at an access to the group's shared state     *)
(* that another goroutine can observe or block: the WaitGroup counter,     *)
(* the three sync.Once guards, the context's cancel function.  What a      *)
(* goroutine does on its own before that access (running f, classifying    *)
(* how it ended) belongs to the same step; the write of an outcome slot    *)
(* belongs to the step that enters its Once, since the slots are read      *)
(* only by Wait after the counter has drained.                             *)
(*                                                                         *)
(* The context handed to New or WithContext is context.Background(): only  *)
(* the group cancels the derived context.                                  *)
(***************************************************************************)
EXTENDS Integers, Sequences, FiniteSets, TLC

\* ------------------------------------------------------------------ bounds
\* the number of goroutines one run of the model starts through Go
MaxTasks == 3
\* the count of cancelCtx invocations saturates here
MaxCancelCalls == 2
\* the number of tasks in the runs checked for progress
LiveMaxTasks == 2
\* the number of tasks in the runs that draw every way a task can end
TermMaxTasks == 2
\* the number of Wait results kept since the last call of Go
MaxWaits == 2

\* ------------------------------------------------------------------ values
\* A Go interface value (error or interface{}): t is its dynamic type, v its
\* text; a panicStack carries the wrapped value in (vt, v) and the trace.
NilV == [t |-> "nil", v |-> "<nil>", vt |-> "", stack |-> <<>>]
ErrV(s) == [t |-> "error", v |-> s, vt |-> "", stack |-> <<>>]
StrV(s) == [t |-> "string", v |-> s, vt |-> "", stack |-> <<>>]
\* the error the i-th task of the group returns: err1, err2, ...
ErrOf(i) == ErrV("err" \o ToString(i))
CtxErr == ErrV("context canceled")
ErrPanic == ErrV("errPanic")

\* runtime.Stack: the first line names the goroutine and its status
RuntimeStack == <<"goroutine N [running]:", "frames">>

\* an errorOrStack without the type assertion v.(error): every payload is
\* wrapped
errorOrStack_AlwaysWrap(v) ==
    [t |-> "panicStack", v |-> v.v, vt |-> v.t, stack |-> Tail(RuntimeStack)]

\* errorOrStack(v): v itself if it is an error, else a panicStack of v and
\* the stack without its first line
errorOrStack(v) ==
    IF v.t = "error" THEN v
    ELSE [t |-> "panicStack", v |-> v.v, vt |-> v.t, stack |-> Tail(RuntimeStack)]

\* fmt.Sprint(v) as a sequence of pieces of text: nil prints as <nil>, a
\* string as itself, an error as its Error(), a panicStack through its
\* String method, Sprintf("%v\n\nvia errgroup.Go:\n%s", p.value, p.stack)
Sprint(v) ==
    IF v.t = "panicStack"
    THEN <<v.v, "\n\nvia errgroup.Go:\n">> \o v.stack
    ELSE <<v.v>>

\* strings.HasPrefix on pieces of text
HasPrefix(s, prefix) ==
    /\ Len(prefix) <= Len(s)
    /\ SubSeq(s, 1, Len(prefix)) = prefix

\* ------------------------------------------------------------------ tasks
\* The functions handed to Go, by what their body does.
Plain == {"nil", "err", "panicStr", "goexit"}
Behaviours == Plain \cup {"waitctx", "spawn"}

\* How f() ends in the i-th task: a return of an error value, a panic with
\* a payload, or runtime.Goexit.  "waitctx" blocks on ctx.Done() and returns
\* ctx.Err(); "spawn" calls g.Go on a child and returns nil.
FOutcome(b, i) ==
    CASE b = "nil"      -> [how |-> "return", val |-> NilV]
      [] b = "spawn"    -> [how |-> "return", val |-> NilV]
      [] b = "err"      -> [how |-> "return", val |-> ErrOf(i)]
      [] b = "waitctx"  -> [how |-> "return", val |-> CtxErr]
      [] b = "panicNil" -> [how |-> "panic", val |-> NilV]
      [] b = "panicStr" -> [how |-> "panic", val |-> StrV("some string")]
      [] b = "panicErr" -> [how |-> "panic", val |-> ErrPanic]
      [] b = "goexit"   -> [how |-> "goexit", val |-> NilV]

\* doubleDeferSandwich that keeps a recovered value only if it is not nil
\* (if r := recover(); r != nil { panicValue = errorOrStack(r) })
doubleDeferSandwich_NilNotKept(out) ==
    LET normalReturn == out.how = "return"
        recoverV     == IF out.how = "panic" THEN out.val ELSE NilV
        panicValue   == IF ~normalReturn /\ recoverV # NilV
                        THEN errorOrStack(recoverV) ELSE NilV
        err          == IF normalReturn THEN out.val ELSE NilV
        resumed      == out.how # "goexit"
        recovered    == resumed /\ ~normalReturn
    IN  [panicValue |-> panicValue,
         err        |-> err,
         goexiting  |-> ~normalReturn /\ ~recovered,
         returned   |-> resumed]

\* doubleDeferSandwich with the result of f lost (err is never assigned)
doubleDeferSandwich_DropErr(out) ==
    LET normalReturn == out.how = "return"
        recoverV     == IF out.how = "panic" THEN out.val ELSE NilV
        resumed      == out.how # "goexit"
    IN  [panicValue |-> IF ~normalReturn THEN errorOrStack(recoverV) ELSE NilV,
         err        |-> NilV,
         goexiting  |-> ~normalReturn /\ ~resumed,
         returned   |-> resumed]

\* doubleDeferSandwich(&goexiting, f): the inner deferred function recovers
\* when f did not return normally; the code after the inner function runs
\* only if the recover stopped the termination; the outer deferred function
\* sets goexiting when neither happened.  returned is FALSE when the
\* goroutine is exiting, so that the results never reach the caller.
doubleDeferSandwich(out) ==
    LET normalReturn == out.how = "return"
        recoverV     == IF out.how = "panic" THEN out.val ELSE NilV
        panicValue   == IF ~normalReturn THEN errorOrStack(recoverV) ELSE NilV
        err          == IF normalReturn THEN out.val ELSE NilV
        resumed      == out.how # "goexit"
        recovered    == resumed /\ ~normalReturn
    IN  [panicValue |-> panicValue,
         err        |-> err,
         goexiting  |-> ~normalReturn /\ ~recovered,
         returned   |-> resumed]

\* ------------------------------------------------------------------ state
Callers == {"main", "aux"}

VARIABLES
    kind,            \* how the group was made: "zero", "new", "withctx"
    ctxFired,        \* cancelCtx was invoked (the derived ctx is canceled)
    firedByStop,     \* ... and it was a call of Stop that invoked it
    cancelCalls,     \* how often cancelCtx was invoked
    wg,              \* g.wg: the WaitGroup counter
    cancelOnce,      \* g.cancelOnce
    errOnce,         \* g.errOnce
    terminateOnce,   \* g.terminateOnce
    gerr,            \* g.err
    gpanic,          \* g.panic
    ggoexit,         \* g.goexit
    tasks,           \* the goroutines started by Go, in launch order
    cpc,             \* where each calling goroutine is
    cret,            \* where its call of g.cancel returns to
    ev,              \* the call that completed in the last step, if any
    waited           \* how the calls of Wait ended since the last call of Go

vars == <<kind, ctxFired, firedByStop, cancelCalls, wg, cancelOnce, errOnce,
          terminateOnce, gerr, gpanic, ggoexit, tasks, cpc, cret, ev,
          waited>>

slots == <<gerr, gpanic, ggoexit>>

\* WithContext without cancelOnWait: true
cancelOnWait_Unset == FALSE

\* Group fields set by the constructors
cancelOnWait == kind = "withctx"
HasCancelCtx == kind # "zero"

\* the derived Context is done: its cancel function ran (the ctx handed to
\* New or WithContext is one that is not canceled, context.Background())
CtxDone == ctxFired

NoEv == [op |-> "none", who |-> "", how |-> "none", val |-> NilV]

NewTask(b) ==
    [b |-> b, pc |-> "run", once |-> "", panicValue |-> NilV, err |-> NilV,
     goexiting |-> FALSE]

Init ==
    /\ kind \in {"zero", "new", "withctx"}
    /\ ctxFired = FALSE
    /\ firedByStop = FALSE
    /\ cancelCalls = 0
    /\ wg = 0
    /\ cancelOnce = "free"
    /\ errOnce = "free"
    /\ terminateOnce = "free"
    /\ gerr = NilV
    /\ gpanic = NilV
    /\ ggoexit = FALSE
    /\ tasks = <<>>
    /\ cpc = [c \in Callers |-> "idle"]
    /\ cret = [c \in Callers |-> ""]
    /\ ev = NoEv
    /\ waited = <<>>

\* ------------------------------------------------------------------ sync
\* a Once that runs the function of every caller that finds it idle, also
\* after it has been done
OnceDo_Again(o) ==
    CASE o = "free" -> "run"
      [] o = "held" -> "block"
      [] o = "done" -> "run"

\* a Once whose later callers return while the first is still inside
OnceDo_NoBlock(o) ==
    CASE o = "free" -> "run"
      [] o = "held" -> "skip"
      [] o = "done" -> "skip"

\* sync.Once.Do as seen by a caller: the first caller runs the function,
\* a caller that arrives while it runs blocks until it is over, a caller
\* that arrives later returns at once.
OnceDo(o) ==
    CASE o = "free" -> "run"
      [] o = "held" -> "block"
      [] o = "done" -> "skip"

\* a Wait that returns with one task outstanding
WgWaitReturns_Early(n) == n <= 1

\* a Done that leaves the counter as it is
WgDone_Noop(n) == n

\* sync.WaitGroup
WgAdd(n) == n + 1
WgDone(n) == n - 1
WgWaitReturns(n) == n = 0

\* ------------------------------------------------------------------ cancel
\* a cancel that never invokes cancelCtx
cancelBody_Never(fired) == fired

\* The function g.cancel hands to cancelOnce.Do: invoke cancelCtx if the
\* group has one.  Gives the new value of "the derived ctx was canceled".
cancelBody(fired) == fired \/ HasCancelCtx

\* g.cancel(), first half: cancelOnce.Do is entered, by a goroutine that
\* runs the function or by one that finds the Once done.
CancelEnter ==
    /\ OnceDo(cancelOnce) # "block"
    /\ cancelOnce' = IF OnceDo(cancelOnce) = "run" THEN "held" ELSE cancelOnce
    /\ UNCHANGED <<ctxFired, firedByStop, cancelCalls>>

\* Where the caller of g.cancel() is after CancelEnter: inside the function
\* of the Once, or back at pcAfter.
CancelEnterPc(pcAfter) ==
    IF OnceDo(cancelOnce) = "run" THEN "cancel_fire" ELSE pcAfter

\* a g.cancel() that invokes cancelCtx only when a task or Wait calls it: a
\* Stop that only waits
CancelFire_NotFromStop(pcAfter) ==
    /\ ctxFired' = IF pcAfter = "stop_wait" THEN ctxFired ELSE cancelBody(ctxFired)
    /\ firedByStop' = firedByStop
    /\ cancelCalls' = IF HasCancelCtx /\ pcAfter # "stop_wait" /\ cancelCalls < MaxCancelCalls
                      THEN cancelCalls + 1 ELSE cancelCalls
    /\ cancelOnce' = "done"

\* g.cancel(), second half: the function runs and the Once is marked done.
CancelFire(pcAfter) ==
    /\ ctxFired' = cancelBody(ctxFired)
    /\ firedByStop' = (firedByStop \/ (HasCancelCtx /\ pcAfter = "stop_wait"))
    /\ cancelCalls' = IF HasCancelCtx /\ cancelCalls < MaxCancelCalls
                      THEN cancelCalls + 1 ELSE cancelCalls
    /\ cancelOnce' = "done"

\* ------------------------------------------------------------------ Go
\* Tasks that will still call g.Go on a child.
Reserved == Cardinality({t \in DOMAIN tasks : tasks[t].b = "spawn" /\ tasks[t].pc = "run"})

\* g.Go(f): wg.Add(1) and the go statement.
Register(b) ==
    /\ b = "waitctx" => HasCancelCtx
    /\ wg' = WgAdd(wg)
    /\ tasks' = Append(tasks, NewTask(b))

\* main calls g.Go(f).  With the counter at zero, Add must not run while
\* another goroutine is inside wg.Wait (the rule of sync.WaitGroup).
MainGo(b) ==
    /\ cpc["main"] = "idle"
    /\ Len(tasks) + Reserved + 1 + (IF b = "spawn" THEN 1 ELSE 0) <= MaxTasks
    /\ wg > 0 \/ cpc["aux"] # "stop_wait"
    /\ Register(b)
    /\ ev' = NoEv
    /\ UNCHANGED <<kind, ctxFired, firedByStop, cancelCalls, cancelOnce,
                   errOnce, terminateOnce, gerr, gpanic, ggoexit, cpc, cret>>
    /\ waited' = <<>>

\* a running task calls g.Go(child)
TaskGo(t, b) ==
    /\ tasks[t].pc = "run" /\ tasks[t].b = "spawn"
    /\ Len(tasks) + Reserved + (IF b = "spawn" THEN 1 ELSE 0) <= MaxTasks
    /\ b = "waitctx" => HasCancelCtx
    /\ wg' = WgAdd(wg)
    /\ tasks' = Append([tasks EXCEPT ![t].pc = "spawned"], NewTask(b))
    /\ ev' = NoEv
    /\ UNCHANGED <<kind, ctxFired, firedByStop, cancelCalls, cancelOnce,
                   errOnce, terminateOnce, gerr, gpanic, ggoexit, cpc, cret>>
    /\ waited' = <<>>

\* ------------------------------------------------------------------ the goroutine of Go
\* Go without the deferred "if goexiting" branch
Classify_NoGoexit(r) ==
    IF r.returned
    THEN IF r.panicValue # NilV THEN "panic"
         ELSE IF r.err # NilV THEN "err"
         ELSE "none"
    ELSE "none"

\* Which of the statements of Go the results of doubleDeferSandwich lead to:
\* if panicValue != nil { terminateOnce.Do } else if err != nil { errOnce.Do }
\* after a return, the deferred "if goexiting { terminateOnce.Do }" otherwise.
Classify(r) ==
    IF r.returned
    THEN IF r.panicValue # NilV THEN "panic"
         ELSE IF r.err # NilV THEN "err"
         ELSE "none"
    ELSE IF r.goexiting THEN "goexit" ELSE "none"

\* a Go whose deferred function records the Goexit under g.errOnce: the
\* goexit flag no longer shares the Once of the panic value
OnceOf_GoexitApart(c) == IF c = "panic" THEN "terminate" ELSE "err"

\* The Once that guards the slot of each class
OnceOf(c) == IF c = "err" THEN "err" ELSE "terminate"

\* f runs to its end inside doubleDeferSandwich and the goroutine reaches its
\* first access to the group: the Once of its class (where it waits while
\* another goroutine is inside that Once), or wg.Done when it has nothing to
\* record.  The first goroutine inside the Once writes the slot.
TaskRun(t) ==
    /\ \/ tasks[t].pc = "run" /\ tasks[t].b # "spawn"
       \/ tasks[t].pc = "spawned"
    /\ tasks[t].b = "waitctx" => CtxDone
    /\ LET r == doubleDeferSandwich(FOutcome(tasks[t].b, t))
           c == Classify(r)
           o == IF OnceOf(c) = "err" THEN errOnce ELSE terminateOnce
           enters == c # "none" /\ OnceDo(o) = "run"
           local == [tasks[t] EXCEPT !.goexiting = r.goexiting,
                                     !.panicValue = IF r.returned THEN r.panicValue ELSE NilV,
                                     !.err = IF r.returned THEN r.err ELSE NilV]
       IN  /\ c # "none" => OnceDo(o) # "block"
           /\ tasks' = [tasks EXCEPT ![t] =
                  IF enters
                  THEN [local EXCEPT !.pc = "cancel_enter", !.once = OnceOf(c)]
                  ELSE [local EXCEPT !.pc = "wg_done"]]
           /\ errOnce' = IF enters /\ c = "err" THEN "held" ELSE errOnce
           /\ terminateOnce' = IF enters /\ c # "err" THEN "held" ELSE terminateOnce
           /\ gerr' = IF enters /\ c = "err" THEN r.err ELSE gerr
           /\ gpanic' = IF enters /\ c = "panic" THEN r.panicValue ELSE gpanic
           /\ ggoexit' = IF enters /\ c = "goexit" THEN TRUE ELSE ggoexit
    /\ ev' = NoEv
    /\ UNCHANGED <<waited, kind, ctxFired, firedByStop, cancelCalls, wg, cancelOnce,
                   cpc, cret>>

\* The function handed to errOnce.Do or terminateOnce.Do returns when its
\* g.cancel() has returned: that Once is done.
OnceExit(t) ==
    /\ errOnce' = IF tasks[t].once = "err" THEN "done" ELSE errOnce
    /\ terminateOnce' = IF tasks[t].once = "terminate" THEN "done" ELSE terminateOnce

\* g.cancel() inside the Once: cancelOnce.Do is entered
TaskCancelEnter(t) ==
    /\ tasks[t].pc = "cancel_enter"
    /\ CancelEnter
    /\ tasks' = [tasks EXCEPT ![t].pc = CancelEnterPc("wg_done")]
    /\ IF OnceDo(cancelOnce) = "run"
       THEN UNCHANGED <<errOnce, terminateOnce>>
       ELSE OnceExit(t)
    /\ ev' = NoEv
    /\ UNCHANGED <<waited, kind, wg, gerr, gpanic, ggoexit, cpc, cret>>

\* g.cancel() inside the Once: cancelCtx runs, both Onces are done
TaskCancelFire(t) ==
    /\ tasks[t].pc = "cancel_fire"
    /\ CancelFire("wg_done")
    /\ tasks' = [tasks EXCEPT ![t].pc = "wg_done"]
    /\ OnceExit(t)
    /\ ev' = NoEv
    /\ UNCHANGED <<waited, kind, wg, gerr, gpanic, ggoexit, cpc, cret>>

\* g.wg.Done(), the last statement of the deferred function
TaskWgDone(t) ==
    /\ tasks[t].pc = "wg_done"
    /\ wg' = WgDone(wg)
    /\ tasks' = [tasks EXCEPT ![t].pc = "done"]
    /\ ev' = NoEv
    /\ UNCHANGED <<waited, kind, ctxFired, firedByStop, cancelCalls, cancelOnce,
                   errOnce, terminateOnce, gerr, gpanic, ggoexit, cpc, cret>>

\* ------------------------------------------------------------------ Wait
\* main calls g.Wait()
CallWait ==
    /\ cpc["main"] = "idle"
    /\ cpc' = [cpc EXCEPT !["main"] = "wait_barrier"]
    /\ ev' = NoEv
    /\ UNCHANGED <<waited, kind, ctxFired, firedByStop, cancelCalls, wg, cancelOnce,
                   errOnce, terminateOnce, gerr, gpanic, ggoexit, tasks, cret>>

\* a Wait that cancels whatever the constructor
AfterBarrier_Always(onWait) == "cancel_enter"

\* Where Wait goes on after g.wg.Wait(): if g.cancelOnWait { g.cancel() }
AfterBarrier(onWait) == IF onWait THEN "cancel_enter" ELSE "wait_report"

\* g.wg.Wait() returns
WaitBarrier ==
    /\ cpc["main"] = "wait_barrier"
    /\ WgWaitReturns(wg)
    /\ cpc' = [cpc EXCEPT !["main"] = AfterBarrier(cancelOnWait)]
    /\ cret' = [cret EXCEPT !["main"] = "wait_report"]
    /\ ev' = NoEv
    /\ UNCHANGED <<waited, kind, ctxFired, firedByStop, cancelCalls, wg, cancelOnce,
                   errOnce, terminateOnce, gerr, gpanic, ggoexit, tasks>>

\* a Wait that looks at g.err first
WaitResult_ErrFirst(p, gx, e) ==
    IF e # NilV THEN [how |-> "return", val |-> e]
    ELSE IF p # NilV THEN [how |-> "panic", val |-> p]
    ELSE IF gx THEN [how |-> "goexit", val |-> NilV]
    ELSE [how |-> "return", val |-> e]

\* How Wait ends: panic(g.panic), runtime.Goexit() or return g.err
WaitResult(p, gx, e) ==
    IF p # NilV THEN [how |-> "panic", val |-> p]
    ELSE IF gx THEN [how |-> "goexit", val |-> NilV]
    ELSE [how |-> "return", val |-> e]

\* The results of the calls of Wait since the last Go, for comparison: the
\* first ones are kept and the latest takes the last place.
Noted(w, r) ==
    IF Len(w) < MaxWaits THEN Append(w, r) ELSE [w EXCEPT ![MaxWaits] = r]

\* a Wait that hands out what it found and empties the slots
WaitSlots_Take(s) == <<NilV, NilV, FALSE>>

\* What Wait does to the outcome slots <<g.err, g.panic, g.goexit>>: it
\* reads them and leaves them as they are
WaitSlots(s) == s

\* Wait ends.  A caller that recovers the panic, or whose deferred calls run
\* during the Goexit, goes on using the group.
WaitReport ==
    /\ cpc["main"] = "wait_report"
    /\ LET r == WaitResult(gpanic, ggoexit, gerr)
       IN  ev' = [op |-> "Wait", who |-> "main", how |-> r.how, val |-> r.val]
    /\ cpc' = [cpc EXCEPT !["main"] = "idle"]
    /\ LET s == WaitSlots(slots)
       IN  gerr' = s[1] /\ gpanic' = s[2] /\ ggoexit' = s[3]
    /\ UNCHANGED <<kind, ctxFired, firedByStop, cancelCalls, wg, cancelOnce,
                   errOnce, terminateOnce, tasks, cret>>
    /\ waited' = Noted(waited, WaitResult(gpanic, ggoexit, gerr))

\* ------------------------------------------------------------------ Stop
\* a Stop that clears the outcome slots
StopSlots_Reset(s) == <<NilV, NilV, FALSE>>

\* What Stop does to the outcome slots <<g.err, g.panic, g.goexit>>: nothing
StopSlots(s) == s

\* c calls g.Stop(): its first access to the group is the cancelOnce.Do of
\* g.cancel(), where it waits while another goroutine is inside that Once.
CallStop(c) ==
    /\ cpc[c] = "idle"
    /\ CancelEnter
    /\ cpc' = [cpc EXCEPT ![c] = CancelEnterPc("stop_wait")]
    /\ cret' = [cret EXCEPT ![c] = "stop_wait"]
    /\ LET s == StopSlots(slots)
       IN  gerr' = s[1] /\ gpanic' = s[2] /\ ggoexit' = s[3]
    /\ ev' = NoEv
    /\ UNCHANGED <<waited, kind, wg, errOnce, terminateOnce, tasks>>

\* g.wg.Wait() returns and Stop returns with it
StopWait(c) ==
    /\ cpc[c] = "stop_wait"
    /\ WgWaitReturns(wg)
    /\ cpc' = [cpc EXCEPT ![c] = "idle"]
    /\ ev' = [op |-> "Stop", who |-> c, how |-> "return", val |-> NilV]
    /\ UNCHANGED <<waited, kind, ctxFired, firedByStop, cancelCalls, wg, cancelOnce,
                   errOnce, terminateOnce, gerr, gpanic, ggoexit, tasks, cret>>

\* g.cancel() called from Wait: cancelOnce.Do is entered
CallerCancelEnter(c) ==
    /\ cpc[c] = "cancel_enter"
    /\ CancelEnter
    /\ cpc' = [cpc EXCEPT ![c] = CancelEnterPc(cret[c])]
    /\ ev' = NoEv
    /\ UNCHANGED <<waited, kind, wg, errOnce, terminateOnce, gerr,
                   gpanic, ggoexit, tasks, cret>>

\* g.cancel() called from Wait or Stop: cancelCtx runs
CallerCancelFire(c) ==
    /\ cpc[c] = "cancel_fire"
    /\ CancelFire(cret[c])
    /\ cpc' = [cpc EXCEPT ![c] = cret[c]]
    /\ ev' = NoEv
    /\ UNCHANGED <<waited, kind, wg, errOnce, terminateOnce, gerr,
                   gpanic, ggoexit, tasks, cret>>

\* ------------------------------------------------------------------ spec
TaskStep(t) ==
    \/ TaskRun(t)
    \/ TaskCancelEnter(t)
    \/ TaskCancelFire(t)
    \/ TaskWgDone(t)

CallerStep(c) ==
    \/ CallerCancelEnter(c)
    \/ CallerCancelFire(c)
    \/ StopWait(c)

Next ==
    \/ \E b \in Behaviours : MainGo(b)
    \/ \E t \in DOMAIN tasks : \E b \in Behaviours : TaskGo(t, b)
    \/ \E t \in DOMAIN tasks : TaskStep(t)
    \/ CallWait
    \/ WaitBarrier
    \/ WaitReport
    \/ \E c \in Callers : CallStop(c)
    \/ \E c \in Callers : CallerStep(c)

Spec == Init /\ [][Next]_vars

\* The use of TestZeroGroup: one goroutine calls Go and then Wait, in turn,
\* with functions that return nil or an error; a task is launched only when
\* the Wait after the one before has returned.
SeqBehaviours == {"nil", "err"}

SeqGo(b) ==
    /\ tasks = <<>> \/ ev.op = "Wait"
    /\ wg = 0
    /\ MainGo(b)

SeqNext ==
    \/ \E b \in SeqBehaviours : SeqGo(b)
    \/ \E t \in DOMAIN tasks : TaskStep(t)
    \/ CallWait
    \/ WaitBarrier
    \/ WaitReport
    \/ CallerCancelEnter("main")
    \/ CallerCancelFire("main")

SeqSpec == Init /\ [][SeqNext]_vars

\* The use of terminateInGroup under a fair scheduler: on a group of New or
\* WithContext one goroutine launches tasks, some of which block on
\* ctx.Done(), and calls Wait and Stop.  A goroutine that can take its next
\* step inside Go's goroutine, inside Wait or inside Stop takes it in the
\* end; calling Go, Wait or Stop is up to the caller.
LiveBehaviours == {"nil", "err", "panicStr", "goexit", "waitctx"}

LiveGo(b) ==
    /\ Len(tasks) < LiveMaxTasks
    /\ MainGo(b)

LiveNext ==
    \/ \E b \in LiveBehaviours : LiveGo(b)
    \/ \E t \in DOMAIN tasks : TaskStep(t)
    \/ CallWait
    \/ WaitBarrier
    \/ WaitReport
    \/ CallStop("main")
    \/ CallerStep("main")

TaskProc(t) == t \in DOMAIN tasks /\ TaskStep(t)

WaitProc == WaitBarrier \/ WaitReport

LiveInit == Init /\ HasCancelCtx

Fairness ==
    /\ \A t \in 1..LiveMaxTasks : WF_vars(TaskProc(t))
    /\ WF_vars(WaitProc)
    /\ WF_vars(CallerStep("main"))

LiveSpec == LiveInit /\ [][LiveNext]_vars /\ Fairness

\* The use of TestPanic and TestGoexit (terminateInGroup): one goroutine
\* launches tasks that end in every way a function can end, a panic with nil,
\* with a string or with an error included, and calls Wait and Stop.
TermBehaviours == {"nil", "err", "panicNil", "panicStr", "panicErr", "goexit", "waitctx"}

TermGo(b) ==
    /\ Len(tasks) < TermMaxTasks
    /\ MainGo(b)

TermNext ==
    \/ \E b \in TermBehaviours : TermGo(b)
    \/ \E t \in DOMAIN tasks : TaskStep(t)
    \/ CallWait
    \/ WaitBarrier
    \/ WaitReport
    \/ CallStop("main")
    \/ CallerStep("main")

TermSpec == Init /\ [][TermNext]_vars

\* ------------------------------------------------------------------ what the tasks did
\* How the body of task t ends, read off the function it was given (not off
\* what the group recorded about it).
Fate(t) == FOutcome(tasks[t].b, t)
ReturnsError(t) == Fate(t).how = "return" /\ Fate(t).val # NilV
Panics(t) == Fate(t).how = "panic"
Abandoned(t) == Fate(t).how = "goexit"
Fails(t) == ReturnsError(t) \/ Panics(t) \/ Abandoned(t)
Finished(t) == tasks[t].pc = "done"
TaskIds == DOMAIN tasks

WaitDone == ev.op = "Wait"
StopDone == ev.op = "Stop"

\* the errors returned by the tasks of the group
ReturnedErrors == {Fate(t).val : t \in {u \in TaskIds : ReturnsError(u)}}

\* the first non-nil error in launch order, nil if there is none
FirstErrorInLaunchOrder ==
    IF \E t \in TaskIds : ReturnsError(t)
    THEN Fate(CHOOSE t \in TaskIds :
                /\ ReturnsError(t)
                /\ \A u \in TaskIds : ReturnsError(u) => t <= u).val
    ELSE NilV

\* ------------------------------------------------------------------ C1
\* C1: when a call of Wait or Stop completes, every task registered through
\* Go has run its final wg.Done, tasks registered by running tasks included.
JoinCompleteness ==
    (WaitDone \/ StopDone) => (wg = 0 /\ \A t \in TaskIds : Finished(t))

\* a Wait completes over a task that registered a child through Go
JoinCompletenessWitness ==
    /\ WaitDone
    /\ \E t \in TaskIds : tasks[t].b = "spawn" /\ t < Len(tasks)

\* ------------------------------------------------------------------ C2
\* C2 as stated: if some task was abandoned, Wait ends by runtime.Goexit,
\* also when another task panicked or returned an error, in any order.
AbandonmentPriority ==
    (WaitDone /\ \E t \in TaskIds : Abandoned(t)) => ev.how = "goexit"

\* C2 as amended: if some task was abandoned, Wait never returns a value;
\* it ends by runtime.Goexit when no task panicked, whatever errors were
\* returned and in whatever order, and when a task panicked too it ends the
\* way of the one that entered terminateOnce first (the goexit flag is set
\* only for an abandoned task that was first).
AbandonmentOverError ==
    (WaitDone /\ \E t \in TaskIds : Abandoned(t)) =>
        /\ ev.how \in {"goexit", "panic"}
        /\ (\A t \in TaskIds : ~Panics(t)) => ev.how = "goexit"
        /\ ev.how = (IF ggoexit THEN "goexit" ELSE "panic")

\* Wait ends by Goexit although one task returned an error, which was
\* recorded, and another one panicked
AbandonmentOverErrorWitness ==
    /\ WaitDone /\ ev.how = "goexit"
    /\ gerr # NilV
    /\ \E t \in TaskIds : Panics(t)

\* ------------------------------------------------------------------ C3
\* C3: if some task panicked and no task was abandoned, Wait re-raises the
\* recorded panic and returns no value, whether or not an error was recorded.
DefectOverError ==
    (WaitDone /\ (\E t \in TaskIds : Panics(t)) /\ (\A t \in TaskIds : ~Abandoned(t))) =>
        /\ ev.how = "panic"
        /\ ev.val \in {errorOrStack(Fate(t).val) : t \in {u \in TaskIds : Panics(u)}}

\* Wait panics while an error of another task sits in g.err
DefectOverErrorWitness ==
    /\ WaitDone /\ ev.how = "panic"
    /\ gerr # NilV
    /\ \A t \in TaskIds : ~Abandoned(t)

\* ------------------------------------------------------------------ C4
\* the tasks of the group return, in launch order, exactly these values
\* ("nil" or "err": the i-th task's error is ErrOf(i))
Returning(bs) ==
    /\ Len(tasks) = Len(bs)
    /\ \A i \in 1..Len(bs) : tasks[i].b = bs[i]

\* C4 as stated: for tasks returning [nil, err1, nil, err2] or
\* [err1, nil, err2], Wait returns the first error in launch order in every
\* interleaving.
FirstErrorWinsInEveryInterleaving ==
    (WaitDone /\ (\/ Returning(<<"nil", "err", "nil", "err">>)
                  \/ Returning(<<"err", "nil", "err">>))) =>
        (ev.how = "return" /\ ev.val = FirstErrorInLaunchOrder)

\* C4 as amended: for tasks that only return (nil or an error), at least one
\* of them an error, Wait returns one of the returned errors, never nil: the
\* one recorded in g.err by the task that entered errOnce first, which need
\* not be the first in launch order.
SomeReturnedErrorWins ==
    (WaitDone /\ (\A t \in TaskIds : Fate(t).how = "return")
              /\ (\E t \in TaskIds : ReturnsError(t))) =>
        (ev.how = "return" /\ ev.val \in ReturnedErrors /\ ev.val = gerr)

\* for tasks returning [err1, nil, err3] Wait returns err3
SomeReturnedErrorWinsWitness ==
    /\ WaitDone
    /\ Returning(<<"err", "nil", "err">>)
    /\ ev.how = "return" /\ ev.val = ErrOf(3)

\* ------------------------------------------------------------------ C6
\* C6: in a group of New or WithContext, a task that returned an error,
\* panicked or was abandoned reaches its wg.Done only after the derived
\* context was canceled; so the context is canceled when Wait completes.
CancelBeforeDecrement ==
    HasCancelCtx =>
        /\ \A t \in TaskIds :
              (Fails(t) /\ tasks[t].pc \in {"wg_done", "done"}) => CtxDone
        /\ (WaitDone /\ \E t \in TaskIds : Fails(t)) => CtxDone

\* a failing task that found errOnce taken is about to call wg.Done
CancelBeforeDecrementWitness ==
    /\ HasCancelCtx
    /\ \E t \in TaskIds :
          /\ tasks[t].b = "err" /\ tasks[t].pc = "wg_done"
          /\ gerr # ErrOf(t)

\* ------------------------------------------------------------------ C7
\* C7: in a group of New, when Wait completes and no Stop has canceled, the
\* derived context is canceled iff some task returned an error, panicked or
\* was abandoned.
NewDoesNotAutoCancel ==
    (WaitDone /\ kind = "new" /\ ~firedByStop) =>
        (CtxDone <=> \E t \in TaskIds : Fails(t))

\* Wait returns in a group of New whose tasks all succeeded, no Stop called
\* so far: the context is live
NewDoesNotAutoCancelWitness ==
    /\ WaitDone /\ kind = "new"
    /\ cancelOnce = "free" /\ ~CtxDone
    /\ Len(tasks) > 0

\* ------------------------------------------------------------------ C8
\* C8: in a group of WithContext the derived context is canceled when Wait
\* completes, in every outcome; Wait calls cancel after the counter drained
\* (every task has finished) and has canceled before it reads the outcome.
WithContextAutoCancel ==
    kind = "withctx" =>
        /\ WaitDone => CtxDone
        /\ cpc["main"] = "wait_report" => CtxDone
        /\ cpc["main"] \in {"cancel_enter", "cancel_fire", "wait_report"}
              /\ cret["main"] = "wait_report"
              => (wg = 0 /\ \A t \in TaskIds : Finished(t))

\* Wait returns nil in a group of WithContext whose tasks all succeeded and
\* on which no Stop canceled: Wait itself canceled
WithContextAutoCancelWitness ==
    /\ WaitDone /\ kind = "withctx" /\ ~firedByStop
    /\ ev.how = "return" /\ ev.val = NilV
    /\ Len(tasks) > 0 /\ \A t \in TaskIds : ~Fails(t)

\* ------------------------------------------------------------------ C5
\* C5: when each task has finished (a Wait returned) before the next one is
\* launched, every Wait returns the first non-nil error in launch order of
\* the tasks launched so far, and nil when there is none.
SequentialFirstError ==
    WaitDone => (ev.how = "return" /\ ev.val = FirstErrorInLaunchOrder)

\* after Go(err1), Go(nil), Go(err3), each followed by Wait, Wait returns err1
SequentialFirstErrorWitness ==
    /\ WaitDone
    /\ Returning(<<"err", "nil", "err">>)
    /\ ev.val = ErrOf(1)

\* ------------------------------------------------------------------ C9
\* the steps of a call of Stop by c: the call with its g.cancel(), the
\* cancelCtx it runs, the return of its wg.Wait()
StopStepOf(c) ==
    \/ cpc[c] = "idle" /\ cpc'[c] \in {"cancel_fire", "stop_wait"}
    \/ cret[c] = "stop_wait" /\ cpc[c] = "cancel_fire" /\ cpc'[c] = "stop_wait"
    \/ cpc[c] = "stop_wait" /\ cpc'[c] = "idle"

\* what Wait has to surface given what the tasks did
OutcomeReported ==
    /\ (\E t \in TaskIds : Panics(t) \/ Abandoned(t)) => ev.how \in {"panic", "goexit"}
    /\ (\A t \in TaskIds : Fate(t).how = "return") =>
          /\ ev.how = "return"
          /\ (\E t \in TaskIds : ReturnsError(t)) => ev.val \in ReturnedErrors
          /\ (\A t \in TaskIds : ~ReturnsError(t)) => ev.val = NilV

\* C9: no step of Stop changes g.err, g.panic or g.goexit, Stop ends by
\* returning (no value, no panic, no Goexit) whatever the tasks did, and a
\* Wait that completes after calls of Stop reports what the tasks did.
StopSurfacesNothing ==
    /\ [][(\E c \in Callers : StopStepOf(c)) =>
            /\ slots' = slots
            /\ ev'.op = "Stop" => (ev'.how = "return" /\ ev'.val = NilV)]_vars
    /\ [](WaitDone => OutcomeReported)

\* Wait re-raises a panic on a group that a Stop has canceled before
StopSurfacesNothingWitness ==
    /\ WaitDone /\ ev.how = "panic"
    /\ firedByStop

\* ------------------------------------------------------------------ C10
\* tasks that end by themselves with an error, a panic or a Goexit
FailsByItself(t) == tasks[t].b \in {"err", "panicStr", "goexit"}

\* C10: in a group of New in which some task returns an error, panics or is
\* abandoned, a Wait that was called completes, and the tasks that blocked
\* on ctx.Done() have finished when it does.
WaitProgressOnFailure ==
    /\ (kind = "new" /\ cpc["main"] = "wait_barrier" /\ \E t \in TaskIds : FailsByItself(t))
          ~> WaitDone
    /\ [](WaitDone => \A t \in TaskIds : Finished(t))

\* Wait completes over a task that blocked on ctx.Done() in a group of New
\* that no Stop canceled
WaitProgressOnFailureWitness ==
    /\ WaitDone /\ kind = "new" /\ ~firedByStop
    /\ \E t \in TaskIds : tasks[t].b = "waitctx"
    /\ \E t \in TaskIds : FailsByItself(t)

\* ------------------------------------------------------------------ C11
\* main is inside a call of Stop: in g.cancel() or in g.wg.Wait()
InStop(c) ==
    \/ cpc[c] = "stop_wait"
    \/ cpc[c] = "cancel_fire" /\ cret[c] = "stop_wait"

\* C11: in a group of New or WithContext whose tasks end by themselves or
\* when the derived context is canceled, a Stop that was called returns,
\* also when no task failed; Stop is in wg.Wait only after the cancel
\* function has run; and with the counter at zero its wg.Wait can return
\* at once.
StopProgress ==
    /\ InStop("main") ~> StopDone
    /\ [](cpc["main"] = "stop_wait" => CtxDone)
    /\ []((cpc["main"] = "stop_wait" /\ wg = 0) => ENABLED StopWait("main"))

\* Stop returns over a task that blocked on ctx.Done() in a group in which
\* no task failed by itself: it was Stop that canceled the context
StopProgressWitness ==
    /\ StopDone /\ firedByStop
    /\ \E t \in TaskIds : tasks[t].b = "waitctx"
    /\ \A t \in TaskIds : ~FailsByItself(t)

\* ------------------------------------------------------------------ C12
\* got stands for the payload p: p itself if p is an error, else a
\* panicStack of p and a stack trace; it prints with the text of p first
PayloadPreserved(p, got) ==
    /\ p.t = "error" => got = p
    /\ p.t # "error" =>
          /\ got.t = "panicStack"
          /\ got.v = p.v /\ got.vt = p.t
          /\ got.stack # <<>>
    /\ HasPrefix(Sprint(got), Sprint(p))

\* C12: the value with which Wait panics is the payload of a task that
\* panicked if that payload is an error, and else a panicStack that holds
\* the payload (nil included) and a stack trace and prints with the
\* payload's text first.
DefectPayloadPreserved ==
    (WaitDone /\ ev.how = "panic") =>
        \E t \in TaskIds : Panics(t) /\ PayloadPreserved(Fate(t).val, ev.val)

\* Wait panics with the wrapper of a nil payload next to a task that
\* panicked with an error later
DefectPayloadPreservedWitness ==
    /\ WaitDone /\ ev.how = "panic"
    /\ ev.val.t = "panicStack" /\ ev.val.vt = "nil"
    /\ \E t \in TaskIds : tasks[t].b = "panicErr"

\* ------------------------------------------------------------------ C13
\* task t is at or past its wg.Done
AtDecrement(t) == tasks[t].pc \in {"wg_done", "done"}

\* main is in Wait past g.wg.Wait()
PastBarrier ==
    \/ cpc["main"] = "wait_report"
    \/ cpc["main"] \in {"cancel_enter", "cancel_fire"} /\ cret["main"] = "wait_report"

\* C13: a task that is at its wg.Done or past it has left the Once of its
\* outcome, with the slot written and the cancel inside it over; so with
\* the counter at zero every task has finished and no goroutine is inside
\* errOnce or terminateOnce, and it stays so while Wait reads the slots.
DecrementAfterWrite ==
    /\ \A t \in TaskIds : AtDecrement(t) =>
          /\ ReturnsError(t) => (errOnce = "done" /\ gerr # NilV)
          /\ (Panics(t) \/ Abandoned(t)) =>
                (terminateOnce = "done" /\ (gpanic # NilV \/ ggoexit))
    /\ wg = 0 =>
          /\ \A t \in TaskIds : Finished(t)
          /\ errOnce # "held" /\ terminateOnce # "held"
    /\ PastBarrier => wg = 0

\* Wait is about to read the slots after tasks of both Onces have finished
DecrementAfterWriteWitness ==
    /\ cpc["main"] = "wait_report"
    /\ \E t \in TaskIds : ReturnsError(t)
    /\ \E t \in TaskIds : Panics(t) \/ Abandoned(t)
    /\ errOnce = "done" /\ terminateOnce = "done"

\* ------------------------------------------------------------------ C14
\* the tasks registered through Go that have not run their wg.Done
Unfinished == {t \in TaskIds : ~Finished(t)}

\* C14: the counter of the WaitGroup is the number of registered tasks that
\* have not finished, and is never negative; so every task takes it down by
\* one, once, whether it returned nil, returned an error, panicked or called
\* runtime.Goexit.
PendingCount ==
    /\ wg = Cardinality(Unfinished)
    /\ wg >= 0

\* one task is pending after a task that panicked and a task that called
\* runtime.Goexit have finished
PendingCountWitness ==
    /\ wg = 1
    /\ \E t \in TaskIds : Finished(t) /\ Panics(t)
    /\ \E t \in TaskIds : Finished(t) /\ Abandoned(t)

\* ------------------------------------------------------------------ C15
\* the goroutine of task t is past doubleDeferSandwich
Classified(t) == tasks[t].pc \notin {"run", "spawned"}

\* the classes the goroutine of Go puts task t in, from what it holds after
\* doubleDeferSandwich: panicValue != nil, err != nil, goexiting
ClassesOf(t) ==
    (IF tasks[t].panicValue # NilV THEN {"panic"} ELSE {})
    \cup (IF tasks[t].err # NilV THEN {"failure"} ELSE {})
    \cup (IF tasks[t].goexiting THEN {"abandoned"} ELSE {})
    \cup (IF tasks[t].panicValue = NilV /\ tasks[t].err = NilV /\ ~tasks[t].goexiting
          THEN {"success"} ELSE {})

\* the class of task t by how its function ended
FateClass(t) ==
    CASE Panics(t) -> "panic"
      [] Abandoned(t) -> "abandoned"
      [] ReturnsError(t) -> "failure"
      [] OTHER -> "success"

\* C15: a task is put in exactly one class, the one of how its function
\* ended: return of nil, return of an error, panic (with a nil payload
\* too), runtime.Goexit.  Wait panics when tasks panicked and none was
\* abandoned, also when every payload was nil, and ends by Goexit when tasks
\* were abandoned and none panicked.
TerminationClassified ==
    /\ \A t \in TaskIds : Classified(t) => ClassesOf(t) = {FateClass(t)}
    /\ (WaitDone /\ (\E t \in TaskIds : Panics(t)) /\ (\A t \in TaskIds : ~Abandoned(t)))
          => ev.how = "panic"
    /\ (WaitDone /\ (\E t \in TaskIds : Abandoned(t)) /\ (\A t \in TaskIds : ~Panics(t)))
          => ev.how = "goexit"

\* Wait panics in a group whose only failing task panicked with nil
TerminationClassifiedWitness ==
    /\ WaitDone /\ ev.how = "panic"
    /\ \E t \in TaskIds : tasks[t].b = "panicNil"
    /\ \A t \in TaskIds : tasks[t].b \in {"panicNil", "nil"}

\* ------------------------------------------------------------------ C16
\* every task of the group has finished
AllFinished == \A t \in TaskIds : Finished(t)

\* C16 as stated: each of the three slots that tasks tried to write holds a
\* committed write when they have finished: g.err if a task returned an
\* error, g.panic if a task panicked, g.goexit if a task was abandoned.
OneWritePerSlot ==
    AllFinished =>
        /\ (\E t \in TaskIds : ReturnsError(t)) => gerr \in ReturnedErrors
        /\ (\E t \in TaskIds : Panics(t)) => gpanic # NilV
        /\ (\E t \in TaskIds : Abandoned(t)) => ggoexit

\* C16 as amended: a slot is written only by the goroutine that finds the
\* Once of the slot unused, and a written slot never changes; g.panic and
\* g.goexit share terminateOnce, so a write to one of them fixes both.
\* When the tasks have finished, g.err holds an error that a task returned
\* if any did, and exactly one of g.panic and g.goexit is set if any task
\* panicked or was abandoned.
OneWritePerOnce ==
    /\ [][/\ gerr' # gerr => (errOnce = "free" /\ gerr = NilV)
          /\ <<gpanic', ggoexit'>> # <<gpanic, ggoexit>> =>
                /\ terminateOnce = "free"
                /\ gpanic = NilV /\ ~ggoexit
                /\ (gpanic' # NilV) # ggoexit']_vars
    /\ [](AllFinished =>
            /\ (\E t \in TaskIds : ReturnsError(t)) => gerr \in ReturnedErrors
            /\ (\E t \in TaskIds : Panics(t) \/ Abandoned(t)) =>
                  ((gpanic # NilV) # ggoexit))

\* three tasks returned an error each and the one launched last was first
\* in errOnce; its error stays in g.err
OneWritePerOnceWitness ==
    /\ AllFinished /\ Len(tasks) = 3
    /\ \A t \in TaskIds : tasks[t].b = "err"
    /\ gerr = Fate(3).val

\* ------------------------------------------------------------------ C17
\* C17: the cancel function of the group is invoked at most once, whatever
\* tasks fail and whatever calls of Stop and Wait are made; the context is
\* canceled exactly when it has been invoked, and on a zero Group nothing
\* is ever invoked or canceled.
OneShotCancel ==
    /\ cancelCalls <= 1
    /\ ctxFired <=> cancelCalls = 1
    /\ kind = "zero" => (cancelCalls = 0 /\ ~ctxFired)
    /\ cancelOnce = "done" => (ctxFired <=> HasCancelCtx)

\* a Stop is in its wg.Wait and a Wait has returned on a group that a
\* failing task had canceled first: one invocation, not by Stop
OneShotCancelWitness ==
    /\ cancelCalls = 1 /\ ~firedByStop
    /\ cpc["aux"] = "stop_wait"
    /\ WaitDone
    /\ \E t \in TaskIds : Fails(t) /\ Finished(t)

\* ------------------------------------------------------------------ C18
\* C18 as stated: once tasks have been registered and the counter is back
\* at zero, it stays at zero and no task is registered any more.
PendingZeroOnce ==
    [][(tasks # <<>> /\ wg = 0) => (wg' = 0 /\ tasks' = tasks)]_vars

\* C18 as amended: the counter is never negative, it is zero whenever a
\* Wait returns, and it leaves zero only by a call of Go, which registers
\* one more task; a group whose Wait has returned takes further tasks, and
\* the counter comes back to zero for each of them.
PendingZeroPerBatch ==
    /\ [][(wg = 0 /\ wg' # 0) => (wg' = 1 /\ Len(tasks') = Len(tasks) + 1)]_vars
    /\ [](wg >= 0)
    /\ [](WaitDone => (wg = 0 /\ AllFinished))

\* the third Wait returns on a group that got one task after each Wait
\* before: the counter has been back at zero three times
PendingZeroPerBatchWitness ==
    /\ WaitDone /\ Len(tasks) = 3
    /\ wg = 0

\* ------------------------------------------------------------------ C19
\* C19: g.panic and g.goexit are never both set; one of them is set as
\* soon as terminateOnce is no longer unused and neither before; Wait
\* panics exactly when g.panic is set and ends by Goexit exactly when
\* g.goexit is, so what it does is decided by the task that was first in
\* terminateOnce, and the panics and Goexits of the other tasks are lost.
SingleTerminalOutcome ==
    /\ ~(gpanic # NilV /\ ggoexit)
    /\ terminateOnce = "free" <=> (gpanic = NilV /\ ~ggoexit)
    /\ WaitDone =>
          /\ ev.how = "panic" <=> gpanic # NilV
          /\ ev.how = "goexit" <=> ggoexit
          /\ ev.how = "panic" => \E t \in TaskIds : Panics(t) /\ tasks[t].once = "terminate"
          /\ ev.how = "goexit" => \E t \in TaskIds : Abandoned(t) /\ tasks[t].once = "terminate"
    /\ Cardinality({t \in TaskIds : tasks[t].once = "terminate"}) <= 1

\* Wait panics although a task was abandoned too: the panic was first in
\* terminateOnce and the Goexit of the other task is lost
SingleTerminalOutcomeWitness ==
    /\ WaitDone /\ ev.how = "panic"
    /\ ~ggoexit
    /\ \E t \in TaskIds : Abandoned(t) /\ Finished(t) /\ tasks[t].once = ""

\* ------------------------------------------------------------------ C20
\* main is in a call of Wait and can take its next step
WaitCanStep ==
    /\ cpc["main"] = "wait_barrier" => ENABLED WaitBarrier
    /\ cpc["main"] = "wait_report" => ENABLED WaitReport
    /\ (cpc["main"] = "cancel_enter" /\ cret["main"] = "wait_report")
          => ENABLED CallerCancelEnter("main")

\* C20: after a Wait has returned, as long as Go is not called again, the
\* counter stays at zero, a Wait that is called never has to wait for
\* another goroutine, and every Wait that completes ends as the first one
\* did: the same error returned, the same value panicked with, Goexit again.
WaitRepeatable ==
    waited # <<>> =>
        /\ wg = 0
        /\ WaitCanStep
        /\ \A i \in DOMAIN waited : waited[i] = waited[1]

\* a second Wait has panicked on a group to which no task was added after
\* the first Wait
WaitRepeatableWitness ==
    /\ WaitDone /\ Len(waited) = 2
    /\ ev.how = "panic"

====
